---- MODULE Spec2Model ----
(***************************************************************************)
(* A model of the specification-integrity tools of the repository:         *)
(*   scripts/check-staleness.py              the staleness analyser        *)
(*   .specify/scripts/generate-type-registry.py   the registry generator   *)
(*   .specify/scripts/fix-references.py      the reference fixer           *)
(*   .specify/scripts/migrate-spec-names.py  the filename migrator         *)
(*   .specify/scripts/validate-specs.py      the validator                 *)
(* Each tool is a sequential program; one behaviour is one invocation.     *)
(***************************************************************************)
EXTENDS Integers, Sequences, FiniteSets, TLC

VARIABLES
    \* ---- check-staleness.py
    sPc,        \* position of main(): "start", "ensure", "scan", "classify", "output", "exited", "crashed"
    sRootOk,    \* whether the root directory given on the command line exists
    sImpl,      \* the implementation file: [cases, stamps], the markers in file order
    sRefs,      \* references[impl_file]: the (case file, impl timestamp) pairs
    sCursor,    \* number of pairs calculate_staleness has gone through
    sSkipped,   \* number of pairs skipped with "Cannot read timestamp"
    staleness,  \* the five tiers, each the list of its StaleEntry
    sDirs,      \* the case directories that exist under the root
    sJson,      \* args.json
    sExit,      \* the process's exit status, -1 while it runs
    \* ---- generate-type-registry.py, over successive invocations
    rTemplates, \* the template files in the order glob yields them
    rFile,      \* the content of type-registry.yaml, a list of lines, or NoFile
    rClock,     \* the wall clock, in seconds
    rPc,        \* "idle" between invocations, "scanned" after scan_templates
    rMode,      \* the flags of the invocation: "normal", "force" or "check"
    rTypes,     \* self.types
    rLast,      \* what the last finished invocation did: [mode, outcome, exit, before, gens]
    rGens,      \* number of finished invocations that generated (normal or forced)
    rRuns,      \* number of invocations started
    \* ---- fix-references.py, over successive invocations
    fFiles,     \* the spec files of the corpus, in the order glob yields them
    fPc,        \* "idle" between invocations, "fixing" inside fix_directory
    fDry,       \* self.dry_run, which main sets to not args.apply
    fIndex,     \* self.spec_index: the ids of the specs that carry an id and a name
    fCursor,    \* number of files fix_directory has been through
    fStats,     \* stats of fix_directory and the fixer's counters
    fBefore,    \* the corpus as it was when the invocation started
    fPrev,      \* the invocation before this one: [ran, dry, fixes_applied]
    fRuns,      \* number of invocations started; also the wall clock
    \* ---- migrate-spec-names.py, one invocation
    mDisk,      \* the spec files on disk, in the order glob yields them
    mPc,        \* "start", "migrating", "exited"
    mDry,       \* self.dry_run, which main sets to not args.apply
    mCursor,    \* number of files migrate_directory has been through
    mStats,     \* stats of migrate_directory
    mErrors,    \* len(self.errors)
    mBefore,    \* the files as they were when the invocation started
    mExit,      \* exit status, -1 while running
    \* ---- validate-specs.py, one invocation
    vDocs,      \* the documents under the path, in the order they are processed
    vPc,        \* "start", "validating", "exited"
    vArgs,      \* the command line: [exists, single, json, check_filenames, check_refs]
    vCursor,    \* number of documents validate_directory has been through
    vState,     \* the validator: [errors, ids, names, exc]
    vStats,     \* stats handed to the report
    vExit       \* exit status, -1 while running

staleVars == <<sPc, sRootOk, sImpl, sRefs, sCursor, sSkipped, staleness, sDirs, sJson, sExit>>

regVars == <<rTemplates, rFile, rClock, rPc, rMode, rTypes, rLast, rGens, rRuns>>

fixVars == <<fFiles, fPc, fDry, fIndex, fCursor, fStats, fBefore, fPrev, fRuns>>

migVars == <<mDisk, mPc, mDry, mCursor, mStats, mErrors, mBefore, mExit>>

valVars == <<vDocs, vPc, vArgs, vCursor, vState, vStats, vExit>>

vars == <<staleVars, regVars, fixVars, migVars, valVars>>

\* what an action of one tool leaves alone: the state of the other tools
notStale == <<regVars, fixVars, migVars, valVars>>
notReg == <<staleVars, fixVars, migVars, valVars>>
notFix == <<staleVars, regVars, migVars, valVars>>
notMig == <<staleVars, regVars, fixVars, valVars>>
notVal == <<staleVars, regVars, fixVars, migVars>>

(***************************************************************************)
(* Bounds of the model.                                                    *)
(***************************************************************************)
\* markers of one kind in the implementation file
MaxRefs == 2
\* template files in the template directory
MaxTemplates == 2
\* invocations of the registry generator in a row
MaxRuns == 3
\* seconds the wall clock may advance
MaxClock == 2
\* spec files in the corpus of the fixer
MaxFiles == 2
\* invocations of the fixer in a row
MaxFixRuns == 2
\* documents under the path given to the validator
MaxDocs == 2

\* the longest preconditions or test_cases list of a phase
MaxEntries == 3

(***************************************************************************)
(* check-staleness.py                                                      *)
(***************************************************************************)
\* A datetime: hours on a common time line, and whether it carries an offset.
\* A timestamp text is [ok, z, t]: whether fromisoformat reads it, whether it
\* ends in Z, and the instant it writes.
NoneTs == [none |-> TRUE, aware |-> FALSE, t |-> 0]

HoursPerDay == 24

\* the recorded implementation timestamps are all this instant
ImplHour == 48

\* hours by which the specification's timestamp is later than ImplHour
DeltaHours == {-24, 0, 23, 24, 72, 168, 720, 743, 744, 840}

\* 'Case Timestamp:' marker texts accepted by timestamp_pattern
StampTexts ==
    {[ok |-> TRUE, z |-> TRUE, t |-> ImplHour],
     [ok |-> TRUE, z |-> FALSE, t |-> ImplHour],
     [ok |-> FALSE, z |-> FALSE, t |-> 0]}

\* what an 'Implements:' marker leads to: the hash_timestamp line of the case file
CaseTexts ==
    {[ok |-> TRUE, z |-> TRUE, t |-> ImplHour + d] : d \in DeltaHours}
    \cup {[ok |-> TRUE, z |-> FALSE, t |-> ImplHour + 72],
          [ok |-> FALSE, z |-> FALSE, t |-> 0]}

\* parse_iso_timestamp: a trailing Z becomes +00:00 (an aware datetime), a text
\* without it reads as a naive datetime, anything unreadable is None
parse_iso_timestamp(text) ==
    IF text.ok THEN [none |-> FALSE, aware |-> text.z, t |-> text.t] ELSE NoneTs

\* get_case_timestamp: the case file's hash_timestamp line, parsed
get_case_timestamp(case) == parse_iso_timestamp(case)

RECURSIVE PairUp(_, _, _)
\* the loop of find_implementation_references: the i-th reference with the i-th
\* timestamp, kept when the timestamp parses
PairUp(cases, stamps, i) ==
    IF i > Len(cases) THEN <<>>
    ELSE LET rest == PairUp(cases, stamps, i + 1)
         IN IF i <= Len(stamps) /\ ~parse_iso_timestamp(stamps[i]).none
            THEN <<[idx |-> i, case |-> cases[i],
                    impl_timestamp |-> parse_iso_timestamp(stamps[i])]>> \o rest
            ELSE rest

\* the references paired with the timestamps that parse, the others left out
\* before the pairing
find_implementation_references_Shifted(impl) ==
    PairUp(impl.cases, SelectSeq(impl.stamps, LAMBDA s : s.ok), 1)

\* lines 85-102 for one implementation file
find_implementation_references(impl) == PairUp(impl.cases, impl.stamps, 1)

\* datetime comparison and subtraction raise TypeError on a naive/aware mix
Comparable(a, b) == a.aware = b.aware

\* timedelta.days of a positive difference
DaysBetween(later, earlier) == (later.t - earlier.t) \div HoursPerDay

CriticalDays == 30
HighDays == 7
MediumDays == 1

\* TierOf with equal timestamps taken for stale
TierOf_EqualIsStale(case_timestamp, impl_timestamp) ==
    IF case_timestamp.t >= impl_timestamp.t
    THEN LET days_stale == DaysBetween(case_timestamp, impl_timestamp)
         IN IF days_stale > CriticalDays THEN "critical"
            ELSE IF days_stale > HighDays THEN "high"
            ELSE IF days_stale >= MediumDays THEN "medium"
            ELSE "low"
    ELSE "up_to_date"

\* the tier chosen at lines 131-145
TierOf(case_timestamp, impl_timestamp) ==
    IF case_timestamp.t > impl_timestamp.t
    THEN LET days_stale == DaysBetween(case_timestamp, impl_timestamp)
         IN IF days_stale > CriticalDays THEN "critical"
            ELSE IF days_stale > HighDays THEN "high"
            ELSE IF days_stale >= MediumDays THEN "medium"
            ELSE "low"
    ELSE "up_to_date"

StaleEntry(ref, case_timestamp, tier) ==
    [idx |-> ref.idx,
     case_timestamp |-> case_timestamp,
     impl_timestamp |-> ref.impl_timestamp,
     days_stale |-> IF tier = "up_to_date" THEN 0
                    ELSE DaysBetween(case_timestamp, ref.impl_timestamp)]

Tiers == {"critical", "high", "medium", "low", "up_to_date"}

EmptyStaleness == [k \in Tiers |-> <<>>]

CaseDirs == {"test-cases", "scenario-cases", "precondition-cases"}

SeqsUpTo(S, n) == UNION {[1..k -> S] : k \in 0..n}

(***************************************************************************)
(* generate-type-registry.py                                               *)
(***************************************************************************)
NoFile == <<[kind |-> "nofile", name |-> "", prefix |-> "", template |-> "", ts |-> -1]>>

\* what extract_template_metadata returns for a template file: type "" stands
\* for None (no type found, or the file could not be parsed)
TemplatePool ==
    {[template |-> "spec-a.yaml", type |-> "TestCase", prefix |-> "TC"],
     [template |-> "spec-b.yaml", type |-> "TestCase", prefix |-> "TX"],
     [template |-> "spec-c.yaml", type |-> "ScenarioCase", prefix |-> "TC"],
     [template |-> "spec-d.md", type |-> "Requirement", prefix |-> ""],
     [template |-> "spec-e.md", type |-> "Plan", prefix |-> ""],
     [template |-> "spec-f.md", type |-> "", prefix |-> ""]}

\* the type names in the order sorted() puts them
AlphabeticalTypes == <<"Legacy", "Plan", "Requirement", "ScenarioCase", "TestCase">>

Line(kind, name, prefix, template, ts) ==
    [kind |-> kind, name |-> name, prefix |-> prefix, template |-> template, ts |-> ts]

\* the scanning order: the *.yaml templates before the *.md ones, no file twice
IsListing(seq) ==
    /\ \A i, j \in 1..Len(seq) : i # j => seq[i].template # seq[j].template
    /\ \A i, j \in 1..Len(seq) :
         (i < j) => ~(seq[i].template \in {"spec-d.md", "spec-e.md", "spec-f.md"}
                      /\ seq[j].template \in {"spec-a.yaml", "spec-b.yaml", "spec-c.yaml"})

\* scan_templates, lines 135-153: [ok, types]; types maps a type name to its
\* metadata; ok is FALSE when sys.exit(1) is reached
RECURSIVE ScanFrom(_, _, _)
ScanFrom(listing, i, types) ==
    IF i > Len(listing) THEN [ok |-> TRUE, types |-> types]
    ELSE LET metadata == listing[i]
         IN IF metadata.type = "" THEN ScanFrom(listing, i + 1, types)
            ELSE IF metadata.type \in DOMAIN types
                 THEN ScanFrom(listing, i + 1, types)
            ELSE IF \E t \in DOMAIN types :
                        types[t].prefix = metadata.prefix /\ metadata.prefix # ""
                 THEN [ok |-> FALSE, types |-> types]
            ELSE ScanFrom(listing, i + 1,
                          [t \in DOMAIN types \cup {metadata.type} |->
                              IF t = metadata.type THEN metadata ELSE types[t]])

EmptyTypes == [t \in {} |-> 0]

scan_templates(listing) == ScanFrom(listing, 1, EmptyTypes)

\* generate_registry, lines 162-189: the header with the timestamp line, then
\* one entry per type in alphabetical order
generate_registry(types, timestamp) ==
    <<Line("comment", "AUTO-GENERATED FILE - DO NOT EDIT", "", "", -1),
      Line("lastgen", "", "", "", timestamp),
      Line("yaml", "types:", "", "", -1)>>
    \o [i \in 1..Cardinality(DOMAIN types) |->
          LET sorted == SelectSeq(AlphabeticalTypes, LAMBDA t : t \in DOMAIN types)
              m == types[sorted[i]]
          IN Line("type", m.type, m.prefix, m.template, -1)]

\* extract_content_without_timestamp, lines 193-195
extract_content_without_timestamp(content) ==
    SelectSeq(content, LAMBDA l : l.kind # "lastgen")

\* extract_timestamp, lines 199-202: the first timestamp line's value, -1 for None
extract_timestamp(content) ==
    LET stamped == SelectSeq(content, LAMBDA l : l.kind = "lastgen")
    IN IF stamped = <<>> THEN -1 ELSE stamped[1].ts

\* the timestamp generate_registry uses: existing_timestamp or now
TimestampOr(existing_timestamp, now) ==
    IF existing_timestamp = -1 THEN now ELSE existing_timestamp

\* write_registry without the comparison: it writes on every call
write_registry_AlwaysWrites(file, types, force, now) ==
    [file |-> generate_registry(types, now), written |-> TRUE]

\* write_registry, lines 214-246: [file, written]
write_registry(file, types, force, now) ==
    LET exists == file # NoFile
        existing_content == IF exists /\ ~force THEN file ELSE <<>>
        existing_timestamp == IF exists /\ ~force THEN extract_timestamp(file) ELSE -1
        new_content == generate_registry(types, TimestampOr(existing_timestamp, now))
    IN IF /\ existing_content # <<>>
          /\ ~force
          /\ extract_content_without_timestamp(existing_content)
               = extract_content_without_timestamp(new_content)
       THEN [file |-> file, written |-> FALSE]
       ELSE [file |-> generate_registry(types, now), written |-> TRUE]

\* main's --check branch, lines 282-301: the value main returns
check_registry(file, types, now) ==
    IF file # NoFile
    THEN LET new_content == generate_registry(types, TimestampOr(extract_timestamp(file), now))
         IN IF extract_content_without_timestamp(file)
                 # extract_content_without_timestamp(new_content)
            THEN 1 ELSE 0
    ELSE 1

\* registry files that may be there before the first invocation: none, an empty
\* one, one generated from other templates, one for these templates that lost
\* its timestamp line
InitialFiles(listing) ==
    {NoFile, <<>>,
     generate_registry([t \in {"Legacy"} |->
                          [template |-> "spec-z.md", type |-> "Legacy", prefix |-> "LG"]], 0),
     extract_content_without_timestamp(generate_registry(scan_templates(listing).types, 0))}

(***************************************************************************)
(* fix-references.py                                                       *)
(***************************************************************************)
\* an entry of a 'preconditions' list: a string (a bare name or a path), a
\* mapping with a 'path', or something else; dir and yaml say whether the text
\* starts with /specs/ and ends with .yaml
Item(t, base, dir, yaml) == [t |-> t, base |-> base, dir |-> dir, yaml |-> yaml]

\* an entry of a 'related' list: an id as a string, a mapping with an 'id', or
\* a scalar that is neither
Ref(t, id) == [t |-> t, id |-> id]

\* a line of a Markdown body: "- TC-001: text" (ref), the same line once
\* rewritten to "- /specs/...: text" (path), or other text
MdLine(kind, id) == [kind |-> kind, id |-> id]

SpecFile(name, ext, parse, id, hasName, preKey, pre, relKey, rel, fm, lines) ==
    [name |-> name, ext |-> ext, parse |-> parse, id |-> id, hasName |-> hasName,
     preKey |-> preKey, pre |-> pre, relKey |-> relKey, rel |-> rel, ts |-> 0,
     fm |-> fm, lines |-> lines]

FixPool ==
    {SpecFile("PC-001.yaml", "yaml", "dict", "PC-001", TRUE, FALSE, <<>>, FALSE, <<>>, "", <<>>),
     SpecFile("TC-001.yaml", "yaml", "dict", "TC-001", TRUE,
              TRUE, <<Item("str", "PC-001", FALSE, FALSE), Item("dict", "PC-002", TRUE, TRUE)>>,
              TRUE, <<Ref("str", "PC-001"), Ref("dict", "TC-001")>>, "", <<>>),
     SpecFile("TC-002.yaml", "yaml", "dict", "TC-002", TRUE,
              FALSE, <<>>, TRUE, <<Ref("str", "ZZ-999"), Ref("str", "TC-002")>>, "", <<>>),
     SpecFile("TC-003.yaml", "yaml", "dict", "TC-003", TRUE,
              TRUE, <<Item("str", "/specs/precondition-cases/PC-001", TRUE, FALSE)>>,
              TRUE, <<Ref("int", "7")>>, "", <<>>),
     SpecFile("TC-004.yaml", "yaml", "invalid", "", FALSE, FALSE, <<>>, FALSE, <<>>, "", <<>>),
     SpecFile("TC-005.yaml", "yaml", "empty", "", FALSE, FALSE, <<>>, FALSE, <<>>, "", <<>>),
     SpecFile("REQ-001.md", "md", "", "REQ-001", TRUE, FALSE, <<>>, FALSE, <<>>,
              "dict", <<MdLine("ref", "PC-001"), MdLine("ref", "TC-009"), MdLine("text", "")>>),
     SpecFile("REQ-002.md", "md", "", "", FALSE, FALSE, <<>>, FALSE, <<>>,
              "null", <<MdLine("ref", "PC-001")>>),
     SpecFile("REQ-003.md", "md", "", "", FALSE, FALSE, <<>>, FALSE, <<>>,
              "none", <<MdLine("ref", "PC-001")>>)}

\* glob order: the *.yaml files before the *.md files, no file twice
IsCorpus(seq) ==
    /\ \A i, j \in 1..Len(seq) : i # j => seq[i].name # seq[j].name
    /\ \A i, j \in 1..Len(seq) : (i < j) => ~(seq[i].ext = "md" /\ seq[j].ext = "yaml")

\* _build_spec_index, lines 45-70: the ids of the files that parse to a mapping
\* with both 'id' and 'name'
build_spec_index(files) ==
    {files[i].id : i \in {k \in 1..Len(files) :
        /\ files[k].id # ""
        /\ files[k].hasName
        /\ IF files[k].ext = "yaml" THEN files[k].parse = "dict" ELSE files[k].fm = "dict"}}

\* lines 93-104: a string entry becomes a mapping with a 'path'
FixPrecondition(pc) ==
    IF pc.t = "str" THEN Item("dict", pc.base, TRUE, IF pc.dir THEN pc.yaml ELSE TRUE)
    ELSE pc

WritesFile_IgnoresDryRun(modified, dry_run) == modified

\* lines 125-131 and 193-204: the file is written if it was modified and the
\* fixer is not in dry-run mode
WritesFile(modified, dry_run) == modified /\ ~dry_run

\* fix_yaml_file, lines 76-136: [file, fixes, errors, wrote]
fix_yaml_file(file, index, dry_run, now) ==
    IF file.parse = "invalid" THEN [file |-> file, fixes |-> 0, errors |-> 1, wrote |-> FALSE]
    ELSE IF file.parse = "empty" THEN [file |-> file, fixes |-> 0, errors |-> 0, wrote |-> FALSE]
    ELSE
    LET pcFixes == IF file.preKey THEN Len(SelectSeq(file.pre, LAMBDA pc : pc.t = "str")) ELSE 0
        fixed_preconditions == [i \in 1..Len(file.pre) |-> FixPrecondition(file.pre[i])]
        \* ref.get('id') raises AttributeError on a scalar that is no string
        raises == file.relKey /\ \E i \in 1..Len(file.rel) : file.rel[i].t = "int"
        fixed_related == [i \in 1..Len(SelectSeq(file.rel, LAMBDA r : r.id # "" /\ r.id \in index))
                            |-> Ref("str", SelectSeq(file.rel, LAMBDA r : r.id # "" /\ r.id \in index)[i].id)]
        relFix == file.relKey /\ Len(fixed_related) # Len(file.rel)
        fixes == pcFixes + (IF relFix THEN 1 ELSE 0)
        modified == pcFixes > 0 \/ relFix
        new_content == [file EXCEPT !.pre = IF pcFixes > 0 THEN fixed_preconditions ELSE @,
                                    !.rel = IF relFix THEN fixed_related ELSE @,
                                    !.ts = now]
        \* line 117: one error per reference that the index does not hold
        missing == IF file.relKey
                   THEN Len(SelectSeq(file.rel, LAMBDA r : r.t # "int" /\ r.id # "" /\ r.id \notin index))
                   ELSE 0
    IN IF raises
       THEN [file |-> file, fixes |-> pcFixes, errors |-> missing + 1, wrote |-> FALSE]
       ELSE [file |-> IF WritesFile(modified, dry_run) THEN new_content ELSE file,
             fixes |-> fixes, errors |-> missing, wrote |-> WritesFile(modified, dry_run)]

\* fix_case_reference, lines 152-166
fix_case_reference(line, index) ==
    IF line.kind = "ref" /\ line.id \in index THEN MdLine("path", line.id) ELSE line

\* fix_markdown_file, lines 140-209: [file, fixes, errors, wrote]
fix_markdown_file(file, index, dry_run, now) ==
    LET fixes == Len(SelectSeq(file.lines, LAMBDA l : l.kind = "ref" /\ l.id \in index))
        content == [i \in 1..Len(file.lines) |-> fix_case_reference(file.lines[i], index)]
        modified == fixes > 0
        \* yaml.safe_load of the frontmatter raises, or the assignment into None does
        raises == modified /\ file.fm \in {"null", "invalid"}
        new_content == [file EXCEPT !.lines = content,
                                    !.ts = IF file.fm = "dict" THEN now ELSE @]
    IN IF raises THEN [file |-> file, fixes |-> fixes, errors |-> 1, wrote |-> FALSE]
       ELSE [file |-> IF WritesFile(modified, dry_run) THEN new_content ELSE file,
             fixes |-> fixes, errors |-> 0, wrote |-> WritesFile(modified, dry_run)]

NoStats == [files_scanned |-> 0, files_modified |-> 0, fixes_applied |-> 0, errors |-> 0]

NoPrev == [ran |-> FALSE, dry |-> TRUE, fixes_applied |-> 0]

\* the fixer is not running
FixIdle ==
    /\ fFiles = <<>>
    /\ fPc = "off"
    /\ fDry = TRUE
    /\ fIndex = {}
    /\ fCursor = 0
    /\ fStats = NoStats
    /\ fBefore = <<>>
    /\ fPrev = NoPrev
    /\ fRuns = 0

(***************************************************************************)
(* migrate-spec-names.py                                                   *)
(***************************************************************************)
\* a file name without its extension: "TC-001-login_flow" is Stem("TC-001",
\* "login_flow"), "TC-001" is Stem("TC-001", ""), "notes" is Stem("", "notes")
Stem(id, slug) == [id |-> id, slug |-> slug]

\* ids of the form ^([A-Z]+)-(\d+)$ among the ids of the pool
WellFormedIds == {"TC-001", "TC-003", "REQ-001"}

\* extract_prefix_and_number, lines 113-118
extract_prefix_and_number(spec_id) == spec_id \in WellFormedIds

\* lines 129-132 (and 44-47): lower case, every other character an underscore,
\* runs of underscores merged, underscores stripped at both ends
CleanName(name) ==
    CASE name = "Login Flow" -> "login_flow"
      [] name = "todo later" -> "todo_later"
      [] name = "Payment Rules!" -> "payment_rules"
      [] OTHER -> name

\* lines 42, 53, 134, 155: the text holds a placeholder word
IsPlaceholder(name) == name \in {"todo later", "todo_later"}

MigFile(stem, ext, parse, id, name, purpose) ==
    [stem |-> stem, ext |-> ext, parse |-> parse, id |-> id, name |-> name,
     purpose |-> purpose]

MigPool ==
    {MigFile(Stem("TC-001", ""), "yaml", "dict", "TC-001", "Login Flow", ""),
     MigFile(Stem("TC-001", "login_flow"), "yaml", "dict", "TC-001", "Login Flow", ""),
     MigFile(Stem("", "notes"), "md", "dict", "REQ-001", "todo later", "Payment Rules!"),
     MigFile(Stem("TC-002", ""), "yaml", "invalid", "", "", ""),
     MigFile(Stem("", "draft"), "yaml", "dict", "tc-2", "login", ""),
     MigFile(Stem("TC-003", ""), "yaml", "dict", "TC-003", "", "")}

\* the regular expression of lines 149 and 231
Compliant(stem) == stem.id \in WellFormedIds /\ stem.slug # ""

\* parse_spec_file, lines 72-111: None for a file that is empty, has no
\* frontmatter or does not parse
parse_spec_file(file) == file.parse = "dict"

\* suggest_name_from_content, lines 33-70: from the purpose or the title
suggest_name_from_content(file) ==
    IF file.purpose # "" /\ ~IsPlaceholder(file.purpose) THEN CleanName(file.purpose) ELSE ""

\* None
NoStem == Stem("", "")

\* generate_new_filename, lines 120-137: the stem, or None
generate_new_filename(spec_id, spec_name) ==
    IF ~extract_prefix_and_number(spec_id) THEN NoStem
    ELSE IF CleanName(spec_name) = "" \/ IsPlaceholder(CleanName(spec_name)) THEN NoStem
    ELSE Stem(spec_id, CleanName(spec_name))

Exists(disk, stem, ext) == \E i \in 1..Len(disk) : disk[i].stem = stem /\ disk[i].ext = ext

\* migrate_file, lines 139-190, on file i of the disk:
\* [ok, disk, errors]
migrate_file(disk, i, dry_run) ==
    LET file == disk[i]
        needsName == file.name = "" \/ IsPlaceholder(file.name)
        suggested == suggest_name_from_content(file)
        spec_name == IF needsName THEN suggested ELSE file.name
        new_filename == generate_new_filename(file.id, spec_name)
    IN IF ~parse_spec_file(file) THEN [ok |-> FALSE, disk |-> disk, errors |-> 0]
       ELSE IF Compliant(file.stem) THEN [ok |-> TRUE, disk |-> disk, errors |-> 0]
       ELSE IF needsName /\ suggested = "" THEN [ok |-> FALSE, disk |-> disk, errors |-> 0]
       ELSE IF new_filename = NoStem THEN [ok |-> FALSE, disk |-> disk, errors |-> 0]
       ELSE IF Exists(disk, new_filename, file.ext)
       THEN [ok |-> FALSE, disk |-> disk, errors |-> 1]
       ELSE IF dry_run THEN [ok |-> TRUE, disk |-> disk, errors |-> 0]
       ELSE [ok |-> TRUE, disk |-> [disk EXCEPT ![i].stem = new_filename], errors |-> 0]

NoMigStats == [total |-> 0, migrated |-> 0, already_compliant |-> 0, failed |-> 0]

\* the migrator is not running
MigIdle ==
    /\ mDisk = <<>>
    /\ mPc = "off"
    /\ mDry = TRUE
    /\ mCursor = 0
    /\ mStats = NoMigStats
    /\ mErrors = 0
    /\ mBefore = <<>>
    /\ mExit = -1

\* no two files of a directory have the same name; *.yaml before *.md
IsDisk(seq) ==
    /\ \A i, j \in 1..Len(seq) :
          i # j => ~(seq[i].stem = seq[j].stem /\ seq[i].ext = seq[j].ext)
    /\ \A i, j \in 1..Len(seq) : (i < j) => ~(seq[i].ext = "md" /\ seq[j].ext = "yaml")

(***************************************************************************)
(* validate-specs.py                                                       *)
(***************************************************************************)
\* the value of a key of a document: t is "absent" when the key is not there,
\* else the YAML type ("str", "int", "datetime", "list"); v is the text as the
\* sequence of its tokens, "TC-001" being <<"TC", "001">> and "user_login"
\* <<"user", "login">>; a list of ids is the sequence of the ids' texts
Val(t, v) == [t |-> t, v |-> v]

Absent == Val("absent", <<>>)

\* a file name: the parts of stem.split('-', 2) and the suffix
FileName(parts, prefix, number, name, ext) ==
    [parts |-> parts, prefix |-> prefix, number |-> number, name |-> name, ext |-> ext]

NoPath == FileName(0, "", "", <<>>, "")

\* a document; Doc gives it a 'purpose' and no 'phases'
Doc(file, parse, type, id, name, status, ts, related, sections) ==
    [file |-> file, parse |-> parse, type |-> type, id |-> id, name |-> name,
     status |-> status, hash_timestamp |-> ts, related |-> related, sections |-> sections,
     purpose |-> [t |-> "str", v |-> <<"checks">>], phases |-> [t |-> "absent", v |-> <<>>]]

\* type-registry.yaml as _build_type_info reads it, lines 116-133: type -> prefix
TypeRegistry == [TestCase |-> "TC", ScenarioCase |-> "SC", Requirement |-> "REQ"]

\* self.spec_type_info.get(spec_type) is not None
HasTypeInfo(type) == type.t = "str" /\ Len(type.v) = 1 /\ type.v[1] \in DOMAIN TypeRegistry

VALID_STATUSES == {<<"draft">>, <<"ready">>, <<"active">>, <<"deprecated">>}

\* str.isdigit, and [0-9]+
Digits == {"001", "002", "003", "004", "005", "006", "007", "008", "009", "2"}

\* digits and then one line feed: with re.match, $ also matches just before a
\* line feed that ends the text
DigitsThenNewline == {"001\n"}

\* the texts that match ^\d{4}-\d{2}-\d{2}T\d{2}:\d{2}:\d{2}Z$, line 290, and
\* those among them that strptime accepts, line 301
StampPattern == {<<"2024-01-15T10:30:00Z">>, <<"2024-13-45T10:30:00Z">>}

StampParses == {<<"2024-01-15T10:30:00Z">>}

\* self.errors.append(ValidationError(file_path, severity, message)); arg and
\* also are what the message names
Record(st, file, severity, kind, arg, also) ==
    [st EXCEPT !.errors = Append(@, [file |-> file, severity |-> severity,
                                      kind |-> kind, arg |-> arg, also |-> also])]

\* an exception leaves the try block
Raise(st) == [st EXCEPT !.exc = TRUE]

RECURSIVE RecordEach(_, _, _, _, _)
\* one diagnostic of the kind for each of the arguments, in order
RecordEach(st, file, severity, kind, args) ==
    IF args = <<>> THEN st
    ELSE RecordEach(Record(st, file, severity, kind, Head(args), NoPath),
                    file, severity, kind, Tail(args))

\* lines 518-528 and 609-619
check_required_fields(st, doc) ==
    IF ~HasTypeInfo(doc.type) THEN st
    ELSE RecordEach(st, doc.file, "error", "missing_field",
                    SelectSeq(<<"id", "name", "type", "status", "hash_timestamp">>,
                              LAMBDA f : doc[f].t = "absent"))

\* validate_id_format, lines 312-335; re.match raises TypeError on a value
\* that is no string
validate_id_format(st, doc) ==
    IF ~HasTypeInfo(doc.type)
    THEN Record(st, doc.file, "warning", "unknown_type", doc.type.v, NoPath)
    ELSE IF doc.id.t # "str" THEN Raise(st)
    ELSE IF /\ Len(doc.id.v) = 2
            /\ doc.id.v[1] = TypeRegistry[doc.type.v[1]]
            /\ doc.id.v[2] \in Digits \cup DigitsThenNewline
    THEN st
    ELSE Record(st, doc.file, "error", "invalid_id", doc.id.v, NoPath)

WordLimit == 4

\* validate_name_field, lines 150-179, without a schema: get_name_pattern is
\* None and the word limit is what is checked; re.split raises TypeError on a
\* value that is no string
validate_name_field(st, doc) ==
    IF st.exc THEN st
    ELSE IF doc.name.t # "str" THEN Raise(st)
    ELSE IF Len(doc.name.v) > WordLimit
    THEN Record(st, doc.file, "error", "name_too_long", doc.name.v, NoPath)
    ELSE st

RECURSIVE JoinWords(_)
\* the text of a name: its words with the separator between them
JoinWords(words) ==
    IF words = <<>> THEN ""
    ELSE IF Len(words) = 1 THEN words[1]
    ELSE words[1] \o "-" \o JoinWords(Tail(words))

\* f"{spec_type}:{name}", line 184: one text
NameKey(doc) == JoinWords(doc.type.v) \o ":" \o JoinWords(doc.name.v)

\* check_duplicate_name, lines 181-196
check_duplicate_name(st, doc) ==
    IF st.exc THEN st
    ELSE IF \E e \in st.names : e.key = NameKey(doc)
    THEN Record(st, doc.file, "error", "duplicate_name", doc.name.v,
                (CHOOSE e \in st.names : e.key = NameKey(doc)).file)
    ELSE [st EXCEPT !.names = @ \cup {[key |-> NameKey(doc), file |-> doc.file]}]

CaseTypes == {<<"TestCase">>, <<"ScenarioCase">>, <<"PreconditionCase">>}

\* validate_filename, lines 198-273
validate_filename(st, doc, check_filenames) ==
    IF st.exc \/ ~check_filenames \/ ~HasTypeInfo(doc.type) THEN st
    ELSE IF doc.file.parts < 3
    THEN Record(st, doc.file, "error", "filename_format", <<>>, NoPath)
    ELSE IF doc.file.prefix # TypeRegistry[doc.type.v[1]]
    THEN Record(st, doc.file, "error", "filename_prefix", <<doc.file.prefix>>, NoPath)
    ELSE IF doc.file.number \notin Digits
    THEN Record(st, doc.file, "error", "filename_number", <<doc.file.number>>, NoPath)
    ELSE IF doc.file.name # doc.name.v
    THEN Record(st, doc.file, "warning", "filename_name", doc.file.name, NoPath)
    ELSE IF doc.file.ext = "yaml" /\ doc.type.v \notin CaseTypes
    THEN Record(st, doc.file, "error", "yaml_for_prose", doc.type.v, NoPath)
    ELSE IF doc.file.ext = "yml"
    THEN Record(st, doc.file, "error", "yml_extension", <<>>, NoPath)
    ELSE IF doc.file.ext = "md" /\ doc.type.v \in CaseTypes
    THEN Record(st, doc.file, "error", "md_for_case", doc.type.v, NoPath)
    ELSE st

\* check_duplicate_id, lines 430-442
check_duplicate_id(st, doc) ==
    IF st.exc THEN st
    ELSE IF \E e \in st.ids : e.id = doc.id
    THEN Record(st, doc.file, "error", "duplicate_id", doc.id.v,
                (CHOOSE e \in st.ids : e.id = doc.id).file)
    ELSE [st EXCEPT !.ids = @ \cup {[id |-> doc.id, file |-> doc.file]}]

\* validate_timestamp, lines 275-310
validate_timestamp(st, doc) ==
    IF st.exc \/ doc.hash_timestamp.t \in {"absent", "datetime"} THEN st
    ELSE IF doc.hash_timestamp.t # "str"
    THEN Record(st, doc.file, "error", "timestamp_type", doc.hash_timestamp.v, NoPath)
    ELSE IF doc.hash_timestamp.v \notin StampPattern
    THEN Record(st, doc.file, "error", "timestamp_format", doc.hash_timestamp.v, NoPath)
    ELSE IF doc.hash_timestamp.v \notin StampParses
    THEN Record(st, doc.file, "error", "timestamp_value", doc.hash_timestamp.v, NoPath)
    ELSE st

\* lines 546-553 and 637-644
validate_status(st, doc) ==
    IF st.exc \/ doc.status.t = "absent" THEN st
    ELSE IF doc.status.t = "str" /\ doc.status.v \in VALID_STATUSES THEN st
    ELSE Record(st, doc.file, "warning", "invalid_status", doc.status.v, NoPath)

\* validate_case_path, lines 460-492, on a path given as its tokens, such as
\* <<"/specs/", "test-cases/", "TC-001", ".yaml">>; path.startswith raises
\* AttributeError on a value that is no string
validate_case_path(st, file, path, expected_prefix) ==
    IF st.exc THEN st
    ELSE IF path.t # "str" THEN Raise(st)
    ELSE IF ~(Len(path.v) >= 1 /\ path.v[1] = "/specs/")
    THEN Record(st, file, "error", "path_root", path.v, NoPath)
    ELSE LET dir == IF expected_prefix = "TC" THEN "test-cases/" ELSE "precondition-cases/"
             placed == IF Len(path.v) >= 2 /\ path.v[2] = dir THEN st
                       ELSE Record(st, file, "warning", "path_dir", path.v, NoPath)
         IN IF path.v[Len(path.v)] = ".yaml" THEN placed
            ELSE Record(placed, file, "error", "path_ext", path.v, NoPath)

RECURSIVE validate_entries(_, _, _, _)
\* the loops at lines 397-406 and 417-426 over the entries of a list; an entry
\* is the value of its 'path' ("absent" for a mapping without one), or
\* "scalar" when it is no mapping
validate_entries(st, file, entries, expected_prefix) ==
    IF entries = <<>> \/ st.exc THEN st
    ELSE validate_entries(
             IF Head(entries).t = "scalar" THEN st
             ELSE IF Head(entries).t = "absent"
             THEN Record(st, file, "error", "missing_path", <<expected_prefix>>, NoPath)
             ELSE validate_case_path(st, file, Head(entries), expected_prefix),
             file, Tail(entries), expected_prefix)

\* a phase that is a mapping; each field is a Val, a list holding its entries
Phase(phase_id, phase_name, description, preconditions, test_cases) ==
    [dict |-> TRUE, phase_id |-> phase_id, phase_name |-> phase_name,
     description |-> description, preconditions |-> preconditions,
     test_cases |-> test_cases]

\* a phase_name or description that is there
Text == Val("str", <<"text">>)

\* an entry whose 'path' is /specs/<dir><case><ext>
CasePath(dir, ext) == Val("str", <<"/specs/", dir, "CASE-001", ext>>)

\* a phase_id that is there and not empty, line 379
HasPhaseId(phase) == phase.phase_id.t # "absent" /\ phase.phase_id.v # <<>>

RECURSIVE validate_phases(_, _, _, _, _)
\* the loop of validate_scenario_phases, lines 357-426, from phase idx on
validate_phases(st, file, phases, idx, phase_ids) ==
    IF idx > Len(phases) \/ st.exc THEN st
    ELSE IF ~phases[idx].dict
    THEN validate_phases(Record(st, file, "error", "phase_not_dict", <<ToString(idx)>>, NoPath),
                         file, phases, idx + 1, phase_ids)
    ELSE
    LET phase == phases[idx]
        missing == SelectSeq(<<"phase_id", "phase_name", "description",
                               "preconditions", "test_cases">>,
                             LAMBDA f : phase[f].t = "absent")
        fields == RecordEach(st, file, "error", "phase_missing_field",
                             [k \in 1..Len(missing) |-> <<ToString(idx), missing[k]>>])
        unique == IF HasPhaseId(phase) /\ phase.phase_id.v \in phase_ids
                  THEN Record(fields, file, "error", "duplicate_phase_id",
                              phase.phase_id.v, NoPath)
                  ELSE fields
        pcs == IF phase.preconditions.t = "absent" THEN unique
               ELSE IF phase.preconditions.t # "list"
               THEN Record(unique, file, "error", "preconditions_not_list",
                           <<ToString(idx)>>, NoPath)
               ELSE validate_entries(unique, file, phase.preconditions.v, "PC")
        tcs == IF phase.test_cases.t = "absent" \/ pcs.exc THEN pcs
               ELSE IF phase.test_cases.t # "list"
               THEN Record(pcs, file, "error", "test_cases_not_list",
                           <<ToString(idx)>>, NoPath)
               ELSE validate_entries(pcs, file, phase.test_cases.v, "TC")
    IN validate_phases(tcs, file, phases, idx + 1,
                       IF HasPhaseId(phase) THEN phase_ids \cup {phase.phase_id.v}
                       ELSE phase_ids)

\* validate_scenario_phases, lines 337-428, called at lines 555-557 for a YAML
\* document of type ScenarioCase that has 'phases'
validate_scenario_phases(st, doc) ==
    IF \/ st.exc
       \/ doc.file.ext # "yaml"
       \/ doc.type.t # "str"
       \/ doc.type.v # <<"ScenarioCase">>
       \/ doc.phases.t = "absent"
    THEN st
    ELSE IF doc.phases.t # "list"
    THEN Record(st, doc.file, "error", "phases_not_list", <<>>, NoPath)
    ELSE IF doc.phases.v = <<>>
    THEN Record(st, doc.file, "warning", "phases_empty", <<>>, NoPath)
    ELSE validate_phases(st, doc.file, doc.phases.v, 1, {})

\* lines 646-654, Markdown only: one info per recommended section not there
check_required_sections(st, doc) ==
    IF st.exc \/ doc.file.ext # "md" THEN st
    ELSE RecordEach(st, doc.file, "info", "missing_section", doc.sections)

\* validate_references, lines 444-458, on a list of ids
validate_references(st, doc, check_refs) ==
    IF st.exc \/ doc.related.t = "absent" \/ ~check_refs THEN st
    ELSE RecordEach(st, doc.file, "warning", "ref_not_found",
                    SelectSeq(doc.related.v,
                              LAMBDA ref : \A e \in st.ids : e.id # Val("str", ref)))

ParseFailure_TypeOptional(doc) ==
    IF doc.parse = "invalid" THEN "parse_error"
    ELSE IF doc.parse = "nofm" THEN "no_frontmatter"
    ELSE IF doc.parse = "empty"
    THEN (IF doc.file.ext = "md" THEN "validation_error" ELSE "empty_file")
    ELSE "none"

\* the error that ends validation before any rule runs, lines 496-516, 566-571
\* and 586-608: YAML that does not parse, no frontmatter, an empty YAML file
\* (empty frontmatter has no .get and raises), no 'type'; "none" otherwise
ParseFailure(doc) ==
    IF doc.parse = "invalid" THEN "parse_error"
    ELSE IF doc.parse = "nofm" THEN "no_frontmatter"
    ELSE IF doc.parse = "empty"
    THEN (IF doc.file.ext = "md" THEN "validation_error" ELSE "empty_file")
    ELSE IF doc.type.t = "absent" THEN "missing_type"
    ELSE "none"

\* the try blocks of validate_yaml_case, lines 494-578, and of
\* validate_markdown_spec, lines 580-675
validate_document(st, doc, args) ==
    IF ParseFailure(doc) # "none"
    THEN Record(st, doc.file, "error", ParseFailure(doc), <<>>, NoPath)
    ELSE
    LET required == check_required_fields(st, doc)
        idChecked == validate_id_format(required, doc)
        named == IF doc.name.t = "absent" THEN idChecked
                 ELSE validate_filename(
                          check_duplicate_name(validate_name_field(idChecked, doc), doc),
                          doc, args.check_filenames)
        identified == IF doc.id.t = "absent" THEN required ELSE check_duplicate_id(named, doc)
        checked == validate_references(
                       check_required_sections(
                           validate_scenario_phases(
                               validate_status(validate_timestamp(identified, doc), doc),
                               doc),
                           doc),
                       doc, args.check_refs)
    IN IF checked.exc
       THEN Record([checked EXCEPT !.exc = FALSE], doc.file, "error", "validation_error",
                   <<>>, NoPath)
       ELSE checked

\* validate_file, lines 677-691
validate_file(st, doc, args) ==
    IF doc.file.ext \in {"yaml", "md"} THEN validate_document(st, doc, args)
    ELSE IF doc.file.ext = "yml"
    THEN Record(st, doc.file, "error", "yml_extension", <<>>, NoPath)
    ELSE st

\* the first pass of validate_directory, lines 722-739: id -> path, a later
\* file replacing an earlier one
first_pass(docs) ==
    {[id |-> docs[i].id, file |-> docs[i].file] : i \in {k \in 1..Len(docs) :
        /\ docs[k].parse = "dict"
        /\ docs[k].id.t # "absent"
        /\ \A j \in (k + 1)..Len(docs) :
              ~(docs[j].parse = "dict" /\ docs[j].id = docs[k].id)}}

\* len([e for e in self.errors if e.severity == ...])
CountSeverity(errors, severity) == Len(SelectSeq(errors, LAMBDA e : e.severity = severity))

NoValState == [errors |-> <<>>, ids |-> {}, names |-> {}, exc |-> FALSE]

NoValStats == [total |-> 0, passed |-> 0, errors |-> 0, warnings |-> 0, info |-> 0]

NoArgs == [exists |-> FALSE, single |-> FALSE, json |-> FALSE,
           check_filenames |-> FALSE, check_refs |-> FALSE]

\* the validator is not running
ValIdle ==
    /\ vDocs = <<>>
    /\ vPc = "off"
    /\ vArgs = NoArgs
    /\ vCursor = 0
    /\ vState = NoValState
    /\ vStats = NoValStats
    /\ vExit = -1

\* the staleness analyser is not running
StaleIdle ==
    /\ sPc = "off"
    /\ sRootOk = FALSE
    /\ sImpl = [cases |-> <<>>, stamps |-> <<>>]
    /\ sRefs = <<>>
    /\ sCursor = 0
    /\ sSkipped = 0
    /\ staleness = EmptyStaleness
    /\ sDirs = {}
    /\ sJson = FALSE
    /\ sExit = -1

NoLast == [mode |-> "none", outcome |-> "none", exit |-> -1, before |-> NoFile, gens |-> 0]

\* the registry generator is not running
RegIdle ==
    /\ rTemplates = <<>>
    /\ rFile = NoFile
    /\ rClock = 0
    /\ rPc = "off"
    /\ rMode = "none"
    /\ rTypes = EmptyTypes
    /\ rLast = NoLast
    /\ rGens = 0
    /\ rRuns = 0

RegInit ==
    /\ rTemplates \in {l \in SeqsUpTo(TemplatePool, MaxTemplates) : IsListing(l)}
    /\ rFile \in InitialFiles(rTemplates)
    /\ rClock = 1
    /\ rPc = "idle"
    /\ rMode = "none"
    /\ rTypes = EmptyTypes
    /\ rLast = NoLast
    /\ rGens = 0
    /\ rRuns = 0
    /\ StaleIdle
    /\ FixIdle
    /\ MigIdle
    /\ ValIdle

\* main, lines 267-277: an invocation starts, TypeRegistryGenerator scans the
\* templates; a duplicate prefix ends the process with status 1
RegScan ==
    /\ rPc = "idle"
    /\ rRuns < MaxRuns
    /\ \E mode \in {"normal", "force", "check"} :
         LET scanned == scan_templates(rTemplates)
         IN /\ rRuns' = rRuns + 1
            /\ rMode' = mode
            /\ IF scanned.ok
               THEN /\ rTypes' = scanned.types
                    /\ rPc' = "scanned"
                    /\ UNCHANGED rLast
               ELSE /\ rTypes' = EmptyTypes
                    /\ rPc' = "idle"
                    /\ rLast' = [mode |-> mode, outcome |-> "aborted", exit |-> 1,
                                 before |-> rFile, gens |-> rGens]
    /\ UNCHANGED <<rTemplates, rFile, rClock, rGens>>
    /\ UNCHANGED notReg

\* main, lines 282-301: --check
RegCheck ==
    /\ rPc = "scanned"
    /\ rMode = "check"
    /\ LET code == check_registry(rFile, rTypes, rClock)
       IN rLast' = [mode |-> rMode,
                    outcome |-> IF rFile = NoFile THEN "does not exist"
                                ELSE IF code = 1 THEN "needs update" ELSE "up to date",
                    exit |-> code, before |-> rFile, gens |-> rGens]
    /\ rPc' = "idle"
    /\ UNCHANGED <<rTemplates, rFile, rClock, rMode, rTypes, rGens, rRuns>>
    /\ UNCHANGED notReg

\* main, lines 303-305: write_registry, then status 0
RegWrite ==
    /\ rPc = "scanned"
    /\ rMode \in {"normal", "force"}
    /\ LET w == write_registry(rFile, rTypes, rMode = "force", rClock)
       IN /\ rFile' = w.file
          /\ rLast' = [mode |-> rMode,
                       outcome |-> IF w.written THEN "generated" ELSE "up to date",
                       exit |-> 0, before |-> rFile, gens |-> rGens]
    /\ rGens' = rGens + 1
    /\ rPc' = "idle"
    /\ UNCHANGED <<rTemplates, rClock, rMode, rTypes, rRuns>>
    /\ UNCHANGED notReg

\* time passes between invocations
RegTick ==
    /\ rPc = "idle"
    /\ rClock < MaxClock
    /\ rClock' = rClock + 1
    /\ UNCHANGED <<rTemplates, rFile, rPc, rMode, rTypes, rLast, rGens, rRuns>>
    /\ UNCHANGED notReg

RegNext ==
    \/ RegScan
    \/ RegCheck
    \/ RegWrite
    \/ RegTick

SpecRegistry == RegInit /\ [][RegNext]_vars

(***************************************************************************)
(* check-staleness.py: the run                                             *)
(***************************************************************************)
StaleInit ==
    /\ sPc = "start"
    /\ sRootOk \in BOOLEAN
    /\ sImpl \in [cases : SeqsUpTo(CaseTexts, MaxRefs), stamps : SeqsUpTo(StampTexts, MaxRefs)]
    /\ sRootOk = FALSE => sImpl = [cases |-> <<>>, stamps |-> <<>>]
    /\ sRefs = <<>>
    /\ sCursor = 0
    /\ sSkipped = 0
    /\ staleness = EmptyStaleness
    /\ sDirs \in {{}, CaseDirs}
    /\ sRootOk = FALSE => sDirs = {}
    /\ sJson \in BOOLEAN
    /\ sExit = -1
    /\ RegIdle
    /\ FixIdle
    /\ MigIdle
    /\ ValIdle

\* main, lines 252-256: a root that does not exist is a usage error
StaleBadRoot ==
    /\ sPc = "start"
    /\ ~sRootOk
    /\ sPc' = "exited"
    /\ sExit' = 2
    /\ UNCHANGED <<sRootOk, sImpl, sRefs, sCursor, sSkipped, staleness, sDirs, sJson>>
    /\ UNCHANGED notStale

\* main, line 259: ensure_case_directories creates the missing case directories
ensure_case_directories ==
    /\ sPc = "start"
    /\ sRootOk
    /\ sDirs' = sDirs \cup CaseDirs
    /\ sPc' = "scan"
    /\ UNCHANGED <<sRootOk, sImpl, sRefs, sCursor, sSkipped, staleness, sJson, sExit>>
    /\ UNCHANGED notStale

\* calculate_staleness, line 120
StaleScan ==
    /\ sPc = "scan"
    /\ sRefs' = find_implementation_references(sImpl)
    /\ sPc' = "classify"
    /\ UNCHANGED <<sRootOk, sImpl, sCursor, sSkipped, staleness, sDirs, sJson, sExit>>
    /\ UNCHANGED notStale

\* calculate_staleness, one turn of the loop at lines 123-145
StaleClassify ==
    /\ sPc = "classify"
    /\ sCursor < Len(sRefs)
    /\ LET ref == sRefs[sCursor + 1]
           case_timestamp == get_case_timestamp(ref.case)
       IN IF case_timestamp.none
          THEN /\ sSkipped' = sSkipped + 1
               /\ sCursor' = sCursor + 1
               /\ UNCHANGED <<staleness, sPc, sExit>>
          ELSE IF ~Comparable(case_timestamp, ref.impl_timestamp)
          THEN \* TypeError, caught nowhere: the interpreter ends with status 1
               /\ sPc' = "crashed"
               /\ sExit' = 1
               /\ UNCHANGED <<staleness, sCursor, sSkipped>>
          ELSE LET tier == TierOf(case_timestamp, ref.impl_timestamp)
               IN /\ staleness' = [staleness EXCEPT ![tier] =
                                     Append(@, StaleEntry(ref, case_timestamp, tier))]
                  /\ sCursor' = sCursor + 1
                  /\ UNCHANGED <<sSkipped, sPc, sExit>>
    /\ UNCHANGED <<sRootOk, sImpl, sRefs, sDirs, sJson>>
    /\ UNCHANGED notStale

\* calculate_staleness returns
StaleClassified ==
    /\ sPc = "classify"
    /\ sCursor = Len(sRefs)
    /\ sPc' = "output"
    /\ UNCHANGED <<sRootOk, sImpl, sRefs, sCursor, sSkipped, staleness, sDirs, sJson, sExit>>
    /\ UNCHANGED notStale

\* print_report's return value, lines 198-209
print_report(st) ==
    IF st["critical"] # <<>> THEN 2
    ELSE IF st["high"] # <<>> THEN 1
    ELSE IF st["medium"] # <<>> \/ st["low"] # <<>> THEN 0
    ELSE 0

\* JsonExit without its branch for the high tier
JsonExit_NoHigh(st) ==
    IF st["critical"] # <<>> THEN 2 ELSE 0

\* main's --json branch, lines 283-286; falling off the end of main is status 0
JsonExit(st) ==
    IF st["critical"] # <<>> THEN 2
    ELSE IF st["high"] # <<>> THEN 1
    ELSE 0

\* main, lines 265-289
StaleOutput ==
    /\ sPc = "output"
    /\ sExit' = IF sJson THEN JsonExit(staleness) ELSE print_report(staleness)
    /\ sPc' = "exited"
    /\ UNCHANGED <<sRootOk, sImpl, sRefs, sCursor, sSkipped, staleness, sDirs, sJson>>
    /\ UNCHANGED notStale

StaleNext ==
    \/ StaleBadRoot
    \/ ensure_case_directories
    \/ StaleScan
    \/ StaleClassify
    \/ StaleClassified
    \/ StaleOutput

SpecStale == StaleInit /\ [][StaleNext]_vars

(***************************************************************************)
(* fix-references.py: the run                                              *)
(***************************************************************************)
FixInit ==
    /\ fFiles \in {c \in SeqsUpTo(FixPool, MaxFiles) : IsCorpus(c)}
    /\ fPc = "idle"
    /\ fDry = TRUE
    /\ fIndex = {}
    /\ fCursor = 0
    /\ fStats = NoStats
    /\ fBefore = <<>>
    /\ fPrev = NoPrev
    /\ fRuns = 0
    /\ StaleIdle
    /\ RegIdle
    /\ MigIdle
    /\ ValIdle

\* main, lines 299-316: ReferenceFixer(repo_root, dry_run=not args.apply)
FixStart ==
    /\ fPc = "idle"
    /\ fRuns < MaxFixRuns
    /\ \E apply \in BOOLEAN : fDry' = ~apply
    /\ fIndex' = build_spec_index(fFiles)
    /\ fBefore' = fFiles
    /\ fCursor' = 0
    /\ fStats' = NoStats
    /\ fRuns' = fRuns + 1
    /\ fPc' = "fixing"
    /\ UNCHANGED <<fFiles, fPrev>>
    /\ UNCHANGED notFix

\* fix_directory, one turn of the loop at lines 221-238
FixFile ==
    /\ fPc = "fixing"
    /\ fCursor < Len(fFiles)
    /\ LET file == fFiles[fCursor + 1]
           r == IF file.ext = "yaml" THEN fix_yaml_file(file, fIndex, fDry, fRuns)
                ELSE fix_markdown_file(file, fIndex, fDry, fRuns)
       IN /\ fFiles' = [fFiles EXCEPT ![fCursor + 1] = r.file]
          /\ fStats' = [files_scanned |-> fStats.files_scanned + 1,
                        files_modified |-> fStats.files_modified + (IF r.wrote THEN 1 ELSE 0),
                        fixes_applied |-> fStats.fixes_applied + r.fixes,
                        errors |-> fStats.errors + r.errors]
    /\ fCursor' = fCursor + 1
    /\ UNCHANGED <<fPc, fDry, fIndex, fBefore, fPrev, fRuns>>
    /\ UNCHANGED notFix

\* fix_directory returns; main prints the report and exits
FixReport ==
    /\ fPc = "fixing"
    /\ fCursor = Len(fFiles)
    /\ fPc' = "done"
    /\ UNCHANGED <<fFiles, fDry, fIndex, fCursor, fStats, fBefore, fPrev, fRuns>>
    /\ UNCHANGED notFix

\* the next invocation may follow
FixAgain ==
    /\ fPc = "done"
    /\ fRuns < MaxFixRuns
    /\ fPrev' = [ran |-> TRUE, dry |-> fDry, fixes_applied |-> fStats.fixes_applied]
    /\ fPc' = "idle"
    /\ UNCHANGED <<fFiles, fDry, fIndex, fCursor, fStats, fBefore, fRuns>>
    /\ UNCHANGED notFix

FixNext ==
    \/ FixStart
    \/ FixFile
    \/ FixReport
    \/ FixAgain

SpecFix == FixInit /\ [][FixNext]_vars

(***************************************************************************)
(* migrate-spec-names.py: the run                                          *)
(***************************************************************************)
MigInit ==
    /\ mDisk \in {c \in SeqsUpTo(MigPool, MaxFiles) : IsDisk(c)}
    /\ mPc = "start"
    /\ mDry = TRUE
    /\ mCursor = 0
    /\ mStats = NoMigStats
    /\ mErrors = 0
    /\ mBefore = <<>>
    /\ mExit = -1
    /\ StaleIdle
    /\ RegIdle
    /\ FixIdle
    /\ ValIdle

\* main, lines 302-324: SpecMigrator(repo_root, dry_run=not args.apply)
MigStart ==
    /\ mPc = "start"
    /\ \E apply \in BOOLEAN : mDry' = ~apply
    /\ mBefore' = mDisk
    /\ mPc' = "migrating"
    /\ UNCHANGED <<mDisk, mCursor, mStats, mErrors, mExit>>
    /\ UNCHANGED notMig

\* migrate_directory, one turn of the loop at lines 219-239
MigStep ==
    /\ mPc = "migrating"
    /\ mCursor < Len(mDisk)
    /\ LET file == mDisk[mCursor + 1]
           r == migrate_file(mDisk, mCursor + 1, mDry)
           outcome == IF ~parse_spec_file(file) THEN "failed"
                      ELSE IF Compliant(file.stem) THEN "already_compliant"
                      ELSE IF r.ok THEN "migrated" ELSE "failed"
       IN /\ mDisk' = r.disk
          /\ mErrors' = mErrors + r.errors
          /\ mStats' = [mStats EXCEPT !.total = @ + 1, ![outcome] = @ + 1]
    /\ mCursor' = mCursor + 1
    /\ UNCHANGED <<mPc, mDry, mBefore, mExit>>
    /\ UNCHANGED notMig

\* main, lines 326-329: the report, then the exit status
MigReport ==
    /\ mPc = "migrating"
    /\ mCursor = Len(mDisk)
    /\ mExit' = IF mStats.failed > 0 THEN 1 ELSE 0
    /\ mPc' = "exited"
    /\ UNCHANGED <<mDisk, mDry, mCursor, mStats, mErrors, mBefore>>
    /\ UNCHANGED notMig

MigNext ==
    \/ MigStart
    \/ MigStep
    \/ MigReport

SpecMigrate == MigInit /\ [][MigNext]_vars

(***************************************************************************)
(* validate-specs.py: the run                                              *)
(***************************************************************************)
Stamp == Val("str", <<"2024-01-15T10:30:00Z">>)

DocPool ==
    {Doc(FileName(3, "TC", "001", <<"login">>, "yaml"), "dict", Val("str", <<"TestCase">>),
         Val("str", <<"TC", "001">>), Val("str", <<"login">>), Val("str", <<"draft">>),
         Stamp, Absent, <<>>),
     Doc(FileName(3, "TC", "001", <<"logout">>, "yaml"), "dict", Val("str", <<"TestCase">>),
         Val("str", <<"TC", "001">>), Val("str", <<"logout">>), Val("str", <<"bogus">>),
         Stamp, Val("list", <<<<"TC", "002">>>>), <<>>),
     Doc(FileName(3, "TC", "002", <<"login">>, "yaml"), "dict", Val("str", <<"TestCase">>),
         Val("str", <<"TC", "002">>), Val("str", <<"login">>), Val("str", <<"active">>),
         Val("str", <<"2024-13-45T10:30:00Z">>),
         Val("list", <<<<"TC", "001">>, <<"ZZ", "9">>>>), <<>>),
     Doc(FileName(3, "TC", "001", <<"x">>, "yaml"), "dict", Val("str", <<"TestCase">>),
         Val("str", <<"TC", "001">>), Val("int", <<"123">>), Val("str", <<"draft">>),
         Stamp, Absent, <<>>),
     Doc(FileName(1, "notes", "", <<>>, "yaml"), "dict", Absent,
         Val("str", <<"TC", "001">>), Val("str", <<"notes">>), Absent, Absent, Absent, <<>>),
     Doc(FileName(3, "REQ", "001", <<"rules">>, "md"), "dict", Val("str", <<"Requirement">>),
         Val("str", <<"REQ", "001">>), Val("str", <<"rules">>), Val("str", <<"ready">>),
         Val("datetime", <<"2024-01-15T10:30:00+05:00">>), Val("list", <<<<"TC", "002">>>>),
         <<<<"## Validation Cases">>>>),
     Doc(FileName(3, "TC", "00x", <<"a">>, "md"), "dict", Val("str", <<"Mystery">>),
         Val("str", <<"TC", "002">>), Absent, Val("str", <<"draft">>), Stamp, Absent,
         <<>>),
     Doc(FileName(3, "REQ", "002", <<"a">>, "yaml"), "dict", Val("str", <<"Requirement">>),
         Val("str", <<"req", "2">>), Val("str", <<"a", "b", "c", "d", "e">>), Absent,
         Val("str", <<"yesterday">>), Absent, <<>>),
     Doc(FileName(1, "broken", "", <<>>, "yaml"), "invalid", Absent, Absent, Absent,
         Absent, Absent, Absent, <<>>),
     Doc(FileName(1, "empty", "", <<>>, "md"), "nofm", Absent, Absent, Absent,
         Absent, Absent, Absent, <<>>),
     Doc(FileName(1, "blank", "", <<>>, "yaml"), "empty", Absent, Absent, Absent,
         Absent, Absent, Absent, <<>>),
     Doc(FileName(3, "REQ", "003", <<"a:b">>, "md"), "dict", Val("str", <<"Requirement">>),
         Val("str", <<"REQ", "003">>), Val("str", <<"a:b">>), Val("str", <<"draft">>),
         Stamp, Absent, <<>>),
     Doc(FileName(3, "REQ", "004", <<"b">>, "md"), "dict", Val("str", <<"Requirement:a">>),
         Val("str", <<"REQ", "004">>), Val("str", <<"b">>), Val("str", <<"draft">>),
         Stamp, Absent, <<>>),
     Doc(FileName(3, "TC", "008", <<"login">>, "yaml"), "dict", Val("str", <<"TestCase">>),
         Absent, Val("str", <<"login">>), Val("str", <<"draft">>), Stamp, Absent, <<>>),
     Doc(FileName(3, "TC", "009", <<"a">>, "yaml"), "dict", Val("str", <<"TestCase">>),
         Absent, Val("str", <<"a", "b", "c", "d", "e">>), Val("str", <<"draft">>), Stamp,
         Absent, <<>>),
     Doc(FileName(3, "TC", "005", <<"nl">>, "yaml"), "dict", Val("str", <<"TestCase">>),
         Val("str", <<"TC", "001\n">>), Val("str", <<"nl">>), Val("str", <<"draft">>),
         Stamp, Absent, <<>>),
     Doc(FileName(3, "TC", "007", <<"seven">>, "yaml"), "dict", Val("str", <<"TestCase">>),
         Val("int", <<"7">>), Val("str", <<"seven">>), Val("str", <<"retired">>),
         Stamp, Absent, <<>>),
     Doc(FileName(3, "MY", "001", <<"riddle">>, "yaml"), "dict", Val("str", <<"Mystery">>),
         Absent, Val("str", <<"riddle">>), Val("str", <<"draft">>), Stamp, Absent, <<>>),
     [Doc(FileName(3, "TC", "006", <<"bare">>, "yaml"), "dict", Val("str", <<"TestCase">>),
          Val("str", <<"TC", "002">>), Val("str", <<"bare">>), Absent, Stamp, Absent, <<>>)
        EXCEPT !.purpose = Absent],
     Doc(FileName(3, "TC", "004", <<"old">>, "yml"), "dict", Val("str", <<"TestCase">>),
         Val("str", <<"TC", "004">>), Val("str", <<"old">>), Val("str", <<"draft">>),
         Stamp, Absent, <<>>),
     [Doc(FileName(3, "SC", "001", <<"flow">>, "yaml"), "dict", Val("str", <<"ScenarioCase">>),
          Val("str", <<"SC", "001">>), Val("str", <<"flow">>), Val("str", <<"draft">>),
          Stamp, Absent, <<>>)
        EXCEPT !.phases = Val("list",
            <<Phase(Val("str", <<"P1">>), Text, Text, Val("list", <<CasePath("precondition-cases/", ".yaml")>>),
                    Val("list", <<CasePath("test-cases/", ".yaml")>>)),
              Phase(Val("str", <<"P1">>), Text, Text, Val("list", <<CasePath("precondition-cases/", ".yaml")>>),
                    Val("list", <<CasePath("test-cases/", ".yaml")>>)),
              Phase(Val("str", <<"P2">>), Text, Text, Val("list", <<CasePath("precondition-cases/", ".yaml")>>),
                    Val("list", <<CasePath("test-cases/", ".yaml")>>))>>)],
     [Doc(FileName(3, "SC", "002", <<"gaps">>, "yaml"), "dict", Val("str", <<"ScenarioCase">>),
          Val("str", <<"SC", "002">>), Val("str", <<"gaps">>), Val("str", <<"draft">>),
          Stamp, Absent, <<>>)
        EXCEPT !.phases = Val("list",
            <<Phase(Val("str", <<>>), Absent, Absent, Val("list", <<>>), Absent),
              Phase(Absent, Text, Text, Val("list", <<CasePath("precondition-cases/", ".yaml")>>), Val("list", <<>>))>>)],
     [Doc(FileName(3, "SC", "001", <<"paths">>, "yaml"), "dict", Val("str", <<"ScenarioCase">>),
          Val("str", <<"SC", "001">>), Val("str", <<"paths">>), Val("str", <<"draft">>),
          Stamp, Absent, <<>>)
        EXCEPT !.phases = Val("list",
            <<Phase(Val("str", <<"P1">>), Text, Text,
                    Val("list", <<Val("scalar", <<"PC-001">>), Absent,
                                  Val("str", <<"cases/", "PC-001", ".txt">>)>>),
                    Val("list", <<CasePath("precondition-cases/", ".yaml"),
                                  CasePath("test-cases/", ".txt")>>))>>)],
     [Doc(FileName(3, "SC", "002", <<"crash">>, "yaml"), "dict", Val("str", <<"ScenarioCase">>),
          Val("str", <<"SC", "002">>), Val("str", <<"crash">>), Val("str", <<"draft">>),
          Stamp, Absent, <<>>)
        EXCEPT !.phases = Val("list",
            <<Phase(Val("str", <<"P1">>), Text, Text, Val("list", <<CasePath("precondition-cases/", ".yaml")>>),
                    Val("list", <<Val("int", <<"5">>)>>)),
              Phase(Val("str", <<"P2">>), Text, Text, Val("list", <<CasePath("precondition-cases/", ".yaml")>>),
                    Val("list", <<CasePath("test-cases/", ".yaml")>>)),
              Phase(Val("str", <<"P2">>), Text, Text, Val("list", <<CasePath("precondition-cases/", ".yaml")>>),
                    Val("list", <<CasePath("test-cases/", ".yaml")>>))>>)]}

\* what the glob of validate_directory yields, lines 704-719: the *.yaml files
\* before the *.md files, no file twice
IsScan(docs) ==
    /\ \A i, j \in 1..Len(docs) : i # j => docs[i].file # docs[j].file
    /\ \A i \in 1..Len(docs) : docs[i].file.ext \in {"yaml", "md"}
    /\ \A i, j \in 1..Len(docs) :
          (i < j) => ~(docs[i].file.ext = "md" /\ docs[j].file.ext = "yaml")

ValInit ==
    /\ vDocs \in {d \in SeqsUpTo(DocPool, MaxDocs) : Len(d) = 1 \/ IsScan(d)}
    /\ vPc = "start"
    /\ vArgs = NoArgs
    /\ vCursor = 0
    /\ vState = NoValState
    /\ vStats = NoValStats
    /\ vExit = -1
    /\ StaleIdle
    /\ RegIdle
    /\ FixIdle
    /\ MigIdle

\* main, lines 845-850: the path does not exist
ValBadPath ==
    /\ vPc = "start"
    /\ \E json \in BOOLEAN : vArgs' = [NoArgs EXCEPT !.json = json]
    /\ vExit' = 2
    /\ vPc' = "exited"
    /\ UNCHANGED <<vDocs, vCursor, vState, vStats>>
    /\ UNCHANGED notVal

\* main, lines 852-878, and the first pass of validate_directory, whose index
\* lines 742-743 clear again
ValStart ==
    /\ vPc = "start"
    /\ \E single, json, check_filenames, check_refs \in BOOLEAN :
         /\ IF single THEN Len(vDocs) = 1 ELSE IsScan(vDocs)
         /\ vArgs' = [exists |-> TRUE, single |-> single, json |-> json,
                      check_filenames |-> check_filenames, check_refs |-> check_refs]
         /\ LET all_spec_ids == IF check_refs /\ ~single THEN first_pass(vDocs) ELSE {}
            IN vState' = [NoValState EXCEPT !.ids = all_spec_ids \ all_spec_ids]
    /\ vPc' = "validating"
    /\ UNCHANGED <<vDocs, vCursor, vStats, vExit>>
    /\ UNCHANGED notVal

\* validate_file on the single file, line 868, or one turn of the loop of
\* validate_directory, lines 746-754
ValFile ==
    /\ vPc = "validating"
    /\ vCursor < Len(vDocs)
    /\ vState' = validate_file(vState, vDocs[vCursor + 1], vArgs)
    /\ vStats' = [vStats EXCEPT
                    !.total = @ + 1,
                    !.passed = IF CountSeverity(vState'.errors, "error")
                                    = CountSeverity(vState.errors, "error")
                               THEN @ + 1 ELSE @]
    /\ vCursor' = vCursor + 1
    /\ UNCHANGED <<vDocs, vPc, vArgs, vExit>>
    /\ UNCHANGED notVal

ValReport_WarningsFail(stats) == IF stats.errors > 0 \/ stats.warnings > 0 THEN 1 ELSE 0

\* the value print_report returns, lines 786-794
ValReport(stats) == IF stats.errors > 0 THEN 1 ELSE 0

\* main, lines 869-898: the stats, the report and the exit
ValExit ==
    /\ vPc = "validating"
    /\ vCursor = Len(vDocs)
    /\ vStats' = [total |-> vStats.total,
                  passed |-> IF vArgs.single
                             THEN (IF vState.errors = <<>> THEN 1 ELSE 0)
                             ELSE vStats.passed,
                  errors |-> CountSeverity(vState.errors, "error"),
                  warnings |-> CountSeverity(vState.errors, "warning"),
                  info |-> CountSeverity(vState.errors, "info")]
    /\ vExit' = IF vArgs.json THEN (IF vStats'.errors > 0 THEN 1 ELSE 0)
                ELSE ValReport(vStats')
    /\ vPc' = "exited"
    /\ UNCHANGED <<vDocs, vArgs, vCursor, vState>>
    /\ UNCHANGED notVal

ValNext ==
    \/ ValBadPath
    \/ ValStart
    \/ ValFile
    \/ ValExit

SpecValidate == ValInit /\ [][ValNext]_vars

(***************************************************************************)
(* The three tools that write                                              *)
(***************************************************************************)
\* one of the three tools is invoked
ToolsInit ==
    \/ RegInit
    \/ FixInit
    \/ MigInit

ToolsNext ==
    \/ RegScan
    \/ RegCheck
    \/ RegWrite
    \/ RegTick
    \/ FixStart
    \/ FixFile
    \/ FixReport
    \/ FixAgain
    \/ MigStart
    \/ MigStep
    \/ MigReport

SpecTools == ToolsInit /\ [][ToolsNext]_vars

(***************************************************************************)
(* Properties of validate-specs.py                                         *)
(***************************************************************************)
\* the document declares an id
Declares(doc) == doc.parse = "dict" /\ doc.id.t # "absent"

\* the diagnostics of a kind recorded for a file
DiagsOf(file, kind) == SelectSeq(vState.errors, LAMBDA e : e.file = file /\ e.kind = kind)

\* C1: after a directory run, among the documents that declare the same id the
\* first processed has no duplicate-ID error and each later one has exactly one,
\* an error that names the path of the first.
C1_DuplicateIdNamesFirst ==
    (vPc = "exited" /\ vArgs.exists /\ ~vArgs.single) =>
        \A j \in 1..Len(vDocs) :
            Declares(vDocs[j]) =>
                LET same == {k \in 1..Len(vDocs) :
                                Declares(vDocs[k]) /\ vDocs[k].id = vDocs[j].id}
                    first == CHOOSE k \in same : \A m \in same : k <= m
                    dups == DiagsOf(vDocs[j].file, "duplicate_id")
                IN IF j = first THEN dups = <<>>
                   ELSE /\ Len(dups) = 1
                        /\ dups[1].severity = "error"
                        /\ dups[1].also = vDocs[first].file

\* C2: after a directory run with reference checking, an id under 'related' has
\* a 'not found' diagnostic exactly if no document of the corpus declares it,
\* whatever the order of the documents; the diagnostic is a warning; without
\* reference checking there is no such diagnostic.
C2_NotFoundIffUndeclared ==
    (vPc = "exited" /\ vArgs.exists /\ ~vArgs.single) =>
        /\ \A i \in 1..Len(vState.errors) :
              vState.errors[i].kind = "ref_not_found" =>
                  vArgs.check_refs /\ vState.errors[i].severity = "warning"
        /\ vArgs.check_refs =>
              \A j \in 1..Len(vDocs) :
                  (vDocs[j].parse = "dict" /\ vDocs[j].related.t = "list") =>
                      \A r \in 1..Len(vDocs[j].related.v) :
                          LET ref == vDocs[j].related.v[r]
                          IN (\E i \in 1..Len(vState.errors) :
                                  /\ vState.errors[i].file = vDocs[j].file
                                  /\ vState.errors[i].kind = "ref_not_found"
                                  /\ vState.errors[i].arg = ref)
                             <=> ~\E k \in 1..Len(vDocs) :
                                     Declares(vDocs[k]) /\ vDocs[k].id = Val("str", ref)

\* C9: the exit status is 1 exactly if an error-severity diagnostic was
\* recorded, and 0 otherwise, for a file and for a directory, as text and as
\* JSON; a path that does not exist gives status 2 and no diagnostic.
C9_ExitOneIffError ==
    vPc = "exited" =>
        IF vArgs.exists
        THEN /\ vExit \in {0, 1}
             /\ vExit = 1 <=> \E i \in 1..Len(vState.errors) :
                                  vState.errors[i].severity = "error"
        ELSE vExit = 2 /\ vState.errors = <<>>

\* a run that recorded warnings and no error has exited
C9_Witness ==
    /\ vPc = "exited"
    /\ vArgs.exists
    /\ vExit = 0
    /\ vStats.warnings > 0
    /\ vStats.errors = 0

\* C11: a document of a registered type whose id is not the type's prefix, a
\* hyphen and one or more digits has exactly one identifier-format error, and
\* one whose id has that form has none.
C11_IdFormatExactlyOneError ==
    (vPc = "exited" /\ vArgs.exists) =>
        \A j \in 1..Len(vDocs) :
            (vDocs[j].parse = "dict" /\ HasTypeInfo(vDocs[j].type)
                /\ vDocs[j].id.t # "absent" /\ vDocs[j].file.ext \in {"yaml", "md"}) =>
                Len(DiagsOf(vDocs[j].file, "invalid_id"))
                    = IF /\ vDocs[j].id.t = "str"
                         /\ Len(vDocs[j].id.v) = 2
                         /\ vDocs[j].id.v[1] = TypeRegistry[vDocs[j].type.v[1]]
                         /\ vDocs[j].id.v[2] \in Digits
                      THEN 0 ELSE 1

\* C12: a document that declares a type the registry does not hold has exactly
\* one unknown-type diagnostic, a warning, and no identifier-format error,
\* whatever its other fields are.
C12_UnknownTypeOneWarning ==
    (vPc = "exited" /\ vArgs.exists) =>
        \A j \in 1..Len(vDocs) :
            (vDocs[j].parse = "dict" /\ vDocs[j].type.t # "absent"
                /\ ~HasTypeInfo(vDocs[j].type) /\ vDocs[j].file.ext \in {"yaml", "md"}) =>
                /\ Len(DiagsOf(vDocs[j].file, "unknown_type")) = 1
                /\ DiagsOf(vDocs[j].file, "unknown_type")[1].severity = "warning"
                /\ DiagsOf(vDocs[j].file, "invalid_id") = <<>>

\* the fields a test case must carry: those the validator requires of every
\* type and 'purpose', which the stub generator requires of a case
CaseRequiredFields == <<"id", "name", "type", "status", "hash_timestamp", "purpose">>

\* C13: for a document of a registered case type, each required field that is
\* absent has exactly one error that names it; a document that is alone in the
\* run, has every required field and whose fields are all valid has no error.
C13_MissingRequiredFieldNamed ==
    (vPc = "exited" /\ vArgs.exists) =>
        \A j \in 1..Len(vDocs) :
            (vDocs[j].parse = "dict" /\ HasTypeInfo(vDocs[j].type)
                /\ vDocs[j].type.v \in CaseTypes /\ vDocs[j].file.ext = "yaml") =>
                /\ \A n \in 1..Len(CaseRequiredFields) :
                      vDocs[j][CaseRequiredFields[n]].t = "absent" =>
                          Len(SelectSeq(DiagsOf(vDocs[j].file, "missing_field"),
                                        LAMBDA e : e.arg = CaseRequiredFields[n])) = 1
                /\ ( /\ Len(vDocs) = 1
                     /\ ~vArgs.check_filenames
                     /\ \A n \in 1..Len(CaseRequiredFields) :
                           vDocs[j][CaseRequiredFields[n]].t = "str"
                     /\ vDocs[j].id.v[2] \in Digits
                     /\ vDocs[j].id.v[1] = TypeRegistry[vDocs[j].type.v[1]]
                     /\ Len(vDocs[j].name.v) <= WordLimit
                     /\ vDocs[j].hash_timestamp.v \in StampParses
                     /\ vDocs[j].status.v \in VALID_STATUSES )
                   => CountSeverity(vState.errors, "error") = 0

\* C14: a document with a 'status' has no status diagnostic if the value is
\* draft, ready, active or deprecated, and otherwise exactly one, a warning that
\* cites the value.
C14_StatusOneWarning ==
    (vPc = "exited" /\ vArgs.exists) =>
        \A j \in 1..Len(vDocs) :
            (vDocs[j].parse = "dict" /\ vDocs[j].type.t # "absent"
                /\ vDocs[j].status.t # "absent" /\ vDocs[j].file.ext \in {"yaml", "md"}) =>
                IF vDocs[j].status.t = "str" /\ vDocs[j].status.v \in VALID_STATUSES
                THEN DiagsOf(vDocs[j].file, "invalid_status") = <<>>
                ELSE /\ Len(DiagsOf(vDocs[j].file, "invalid_status")) = 1
                     /\ DiagsOf(vDocs[j].file, "invalid_status")[1].severity = "warning"
                     /\ DiagsOf(vDocs[j].file, "invalid_status")[1].arg = vDocs[j].status.v

(***************************************************************************)
\* a YAML document of a ScenarioCase whose 'phases' is a list
HasPhases(doc) ==
    /\ doc.parse = "dict"
    /\ doc.file.ext = "yaml"
    /\ doc.type = Val("str", <<"ScenarioCase">>)
    /\ doc.phases.t = "list"

\* C15: a scenario document gets as many duplicate-phase-id errors as it has
\* phases whose non-empty phase_id an earlier phase of the same document
\* declared, whatever other documents declare
C15_DuplicatePhaseIdCount ==
    (vPc = "exited" /\ vArgs.exists) =>
        \A i \in 1..Len(vDocs) :
            HasPhases(vDocs[i]) =>
                Len(DiagsOf(vDocs[i].file, "duplicate_phase_id"))
                    = Cardinality({p \in 1..Len(vDocs[i].phases.v) :
                          /\ HasPhaseId(vDocs[i].phases.v[p])
                          /\ \E q \in 1..(p - 1) :
                                vDocs[i].phases.v[q].phase_id
                                    = vDocs[i].phases.v[p].phase_id})

\* C16: a document that does not parse (YAML that is invalid, no frontmatter,
\* an empty file) or declares no type gets exactly one diagnostic, an error,
\* wherever it stands in the run; the run goes on to the last document, and
\* the number of files validated is the number of files of the run
C16_UnparseableOneError ==
    (vPc = "exited" /\ vArgs.exists) =>
        /\ vCursor = Len(vDocs)
        /\ vStats.total = Len(vDocs)
        /\ \A i \in 1..Len(vDocs) :
              (vDocs[i].parse # "dict" \/ vDocs[i].type.t = "absent") =>
                  /\ Len(SelectSeq(vState.errors, LAMBDA e : e.file = vDocs[i].file)) = 1
                  /\ \A k \in 1..Len(vState.errors) :
                        vState.errors[k].file = vDocs[i].file =>
                            vState.errors[k].severity = "error"

\* a directory run that went past a document that does not parse and reported
\* the status of a later one
C16_Witness ==
    /\ vPc = "exited"
    /\ vArgs.exists
    /\ ~vArgs.single
    /\ \E i, j \in 1..Len(vDocs) :
          /\ i < j
          /\ vDocs[i].parse # "dict"
          /\ DiagsOf(vDocs[j].file, "invalid_status") # <<>>

\* C17: after a directory run, among the documents that share a type and a
\* name the first processed has no duplicate-name error and each later one
\* has exactly one, an error that names the path of the first.
C17_DuplicateNameNamesFirst ==
    (vPc = "exited" /\ vArgs.exists /\ ~vArgs.single) =>
        \A j \in 1..Len(vDocs) :
            (ParseFailure(vDocs[j]) = "none" /\ vDocs[j].name.t # "absent") =>
                LET same == {i \in 1..(j - 1) :
                                /\ ParseFailure(vDocs[i]) = "none"
                                /\ vDocs[i].type = vDocs[j].type
                                /\ vDocs[i].name = vDocs[j].name}
                    dups == DiagsOf(vDocs[j].file, "duplicate_name")
                IN IF same = {} THEN dups = <<>>
                   ELSE /\ Len(dups) = 1
                        /\ \A i \in same : (\A k \in same : i <= k) =>
                              dups[1].also = vDocs[i].file

\* C18: every phase of a scenario document that lacks phase_id, phase_name,
\* description, preconditions or test_cases, or whose phase_id or one of the
\* two lists is empty, has an error that names the phase and the field
C18_PhaseFieldsRequired ==
    (vPc = "exited" /\ vArgs.exists) =>
        \A i \in 1..Len(vDocs) :
            HasPhases(vDocs[i]) =>
                \A p \in 1..Len(vDocs[i].phases.v) :
                    \A f \in {"phase_id", "phase_name", "description",
                              "preconditions", "test_cases"} :
                        LET value == vDocs[i].phases.v[p][f]
                        IN (\/ value.t = "absent"
                            \/ (f \in {"phase_id", "preconditions", "test_cases"}
                                   /\ value.v = <<>>)) =>
                               \E k \in 1..Len(vState.errors) :
                                   /\ vState.errors[k].file = vDocs[i].file
                                   /\ vState.errors[k].severity = "error"
                                   /\ vState.errors[k].kind = "phase_missing_field"
                                   /\ vState.errors[k].arg = <<ToString(p), f>>

\* C19: every entry of the preconditions and test_cases lists of a scenario
\* document is checked against each reference rule on its own: as many
\* missing-path errors as entries without a path (entries that are no mapping
\* included), and for every path an error when it does not start with /specs/,
\* a diagnostic when it is outside the directory of its kind, an error when it
\* does not end with .yaml
C19_EntryRulesIndependent ==
    (vPc = "exited" /\ vArgs.exists) =>
        \A i \in 1..Len(vDocs) :
            HasPhases(vDocs[i]) =>
                LET phases == vDocs[i].phases.v
                    entries == {x \in (1..Len(phases)) \X {"preconditions", "test_cases"}
                                          \X (1..MaxEntries) :
                                   /\ phases[x[1]][x[2]].t = "list"
                                   /\ x[3] <= Len(phases[x[1]][x[2]].v)}
                    entry(x) == phases[x[1]][x[2]].v[x[3]]
                    dir(x) == IF x[2] = "test_cases" THEN "test-cases/"
                              ELSE "precondition-cases/"
                IN /\ Len(DiagsOf(vDocs[i].file, "missing_path"))
                          = Cardinality({x \in entries : entry(x).t \in {"scalar", "absent"}})
                   /\ \A x \in entries :
                         entry(x).t = "str" =>
                             /\ entry(x).v[1] # "/specs/" =>
                                    \E k \in 1..Len(DiagsOf(vDocs[i].file, "path_root")) :
                                        DiagsOf(vDocs[i].file, "path_root")[k].arg = entry(x).v
                             /\ (entry(x).v[1] # "/specs/" \/ entry(x).v[2] # dir(x)) =>
                                    \E k \in 1..Len(DiagsOf(vDocs[i].file, "path_dir")) :
                                        DiagsOf(vDocs[i].file, "path_dir")[k].arg = entry(x).v
                             /\ entry(x).v[Len(entry(x).v)] # ".yaml" =>
                                    \E k \in 1..Len(DiagsOf(vDocs[i].file, "path_ext")) :
                                        DiagsOf(vDocs[i].file, "path_ext")[k].arg = entry(x).v

\* C20: the diagnostics of one document stand in the list in the order of the
\* rules: required fields, identifier syntax, name, filename, timestamp,
\* status, duplicate identifier or name, phases, references; so no duplicate
\* diagnostic of a document precedes a timestamp or status diagnostic of it
C20_DiagnosticsInRuleOrder ==
    LET rank(kind) ==
            CASE kind = "missing_field" -> 1
              [] kind \in {"unknown_type", "invalid_id"} -> 2
              [] kind = "name_too_long" -> 3
              [] kind \in {"filename_format", "filename_prefix", "filename_number",
                           "filename_name", "yaml_for_prose", "yml_extension",
                           "md_for_case"} -> 4
              [] kind \in {"timestamp_type", "timestamp_format", "timestamp_value"} -> 5
              [] kind = "invalid_status" -> 6
              [] kind \in {"duplicate_id", "duplicate_name"} -> 7
              [] kind \in {"phases_not_list", "phases_empty", "phase_not_dict",
                           "phase_missing_field", "duplicate_phase_id",
                           "preconditions_not_list", "test_cases_not_list",
                           "missing_path", "path_root", "path_dir", "path_ext"} -> 8
              [] kind = "ref_not_found" -> 9
              [] OTHER -> 0
    IN \A a, b \in 1..Len(vState.errors) :
           (/\ a < b
            /\ vState.errors[a].file = vState.errors[b].file
            /\ rank(vState.errors[a].kind) > 0
            /\ rank(vState.errors[b].kind) > 0) =>
               rank(vState.errors[a].kind) <= rank(vState.errors[b].kind)

\* C21: every document with a type and a text name of more than four words
\* has exactly one name error, whether or not it has an id, and a name of at
\* most four words has none
C21_NameCheckedWithoutId ==
    (vPc = "exited" /\ vArgs.exists) =>
        \A i \in 1..Len(vDocs) :
            (ParseFailure(vDocs[i]) = "none" /\ vDocs[i].name.t = "str") =>
                Len(DiagsOf(vDocs[i].file, "name_too_long"))
                    = IF Len(vDocs[i].name.v) > WordLimit THEN 1 ELSE 0

\* the diagnostics validate_filename records for a file
FilenameDiags(file) ==
    SelectSeq(vState.errors,
              LAMBDA e : e.file = file
                         /\ e.kind \in {"filename_format", "filename_prefix", "filename_number",
                                        "filename_name", "yaml_for_prose", "yml_extension",
                                        "md_for_case"})

\* C22: with filename checks on, a document of a registered type whose
\* filename does not begin with its own id has a filename diagnostic; with
\* filename checks off no document has one
C22_FilenameEncodesId ==
    (vPc = "exited" /\ vArgs.exists) =>
        \A i \in 1..Len(vDocs) :
            (ParseFailure(vDocs[i]) = "none" /\ vDocs[i].file.ext # "yml") =>
                IF ~vArgs.check_filenames THEN FilenameDiags(vDocs[i].file) = <<>>
                ELSE (/\ HasTypeInfo(vDocs[i].type)
                      /\ vDocs[i].id.t = "str"
                      /\ vDocs[i].name.t = "str"
                      /\ vDocs[i].id.v # <<vDocs[i].file.prefix, vDocs[i].file.number>>) =>
                         FilenameDiags(vDocs[i].file) # <<>>

\* C23: with filename checks on, a document of a registered case type kept in
\* a .md file and a document of another registered type kept in a .yaml file
\* have an extension error, whatever else is wrong with the filename
C23_ExtensionAlwaysChecked ==
    (vPc = "exited" /\ vArgs.exists /\ vArgs.check_filenames) =>
        \A i \in 1..Len(vDocs) :
            (/\ ParseFailure(vDocs[i]) = "none"
             /\ HasTypeInfo(vDocs[i].type)
             /\ vDocs[i].id.t = "str"
             /\ vDocs[i].name.t = "str") =>
                /\ (vDocs[i].file.ext = "md" /\ vDocs[i].type.v \in CaseTypes) =>
                       DiagsOf(vDocs[i].file, "md_for_case") # <<>>
                /\ (vDocs[i].file.ext = "yaml" /\ vDocs[i].type.v \notin CaseTypes) =>
                       DiagsOf(vDocs[i].file, "yaml_for_prose") # <<>>

\* C24: a hash_timestamp has no timestamp diagnostic when it is the text of a
\* real date and time in the form YYYY-MM-DDTHH:MM:SSZ, and exactly one
\* timestamp error when it is anything else, a value that is no text included
C24_TimestampTextOnly ==
    (vPc = "exited" /\ vArgs.exists) =>
        \A i \in 1..Len(vDocs) :
            (/\ ParseFailure(vDocs[i]) = "none"
             /\ vDocs[i].file.ext # "yml"
             /\ vDocs[i].hash_timestamp.t # "absent") =>
                Len(SelectSeq(vState.errors,
                              LAMBDA e : e.file = vDocs[i].file
                                         /\ e.kind \in {"timestamp_type", "timestamp_format",
                                                        "timestamp_value"}))
                    = IF vDocs[i].hash_timestamp = Val("str", <<"2024-01-15T10:30:00Z">>)
                      THEN 0 ELSE 1

\* C30: a document has a duplicate-name error only if a document processed
\* before it in the same run has the same type and the same name
C30_DuplicateNameOnlyForSamePair ==
    (vPc = "exited" /\ vArgs.exists) =>
        \A j \in 1..Len(vDocs) :
            DiagsOf(vDocs[j].file, "duplicate_name") # <<>> =>
                \E i \in 1..(j - 1) :
                    /\ ParseFailure(vDocs[i]) = "none"
                    /\ vDocs[i].type = vDocs[j].type
                    /\ vDocs[i].name = vDocs[j].name

(* Properties of the three tools that write                                *)
(***************************************************************************)
\* C5: a tool invoked without --apply or --force leaves every file as it was:
\* the fixer and the migrator without --apply, and the registry generator
\* without any flag.
C5_NoFlagNoWrite ==
    /\ (fPc \in {"fixing", "done"} /\ fDry) => fFiles = fBefore
    /\ (mPc \in {"migrating", "exited"} /\ mDry) => mDisk = mBefore
    /\ rLast.mode = "normal" => rFile = rLast.before

\* C6: a fixer or a migrator constructed with dry_run=True, and the generator
\* run with --check, leave the files, their names and their contents as they
\* were before the run.
C6_DryRunAndCheckWriteNothing ==
    /\ (fPc \in {"fixing", "done"} /\ fDry) => fFiles = fBefore
    /\ (mPc \in {"migrating", "exited"} /\ mDry) => mDisk = mBefore
    /\ rLast.mode = "check" => rFile = rLast.before /\ rGens = rLast.gens

\* a dry run of the fixer has finished and reported fixes it would make
C6_Witness ==
    /\ fPc = "done"
    /\ fDry
    /\ fStats.fixes_applied > 0
    /\ fStats.files_modified = 0

(***************************************************************************)
(* Properties of fix-references.py                                         *)
(***************************************************************************)
\* C7: an apply-mode invocation that follows an apply-mode invocation over the
\* same corpus reports zero fixes applied and leaves every file as it found it.
C7_SecondApplyIsNoop ==
    (fPc = "done" /\ fPrev.ran /\ ~fPrev.dry /\ ~fDry) =>
        fStats.fixes_applied = 0 /\ fFiles = fBefore

(***************************************************************************)
(* Properties of check-staleness.py                                        *)
(***************************************************************************)
EntriesOf(k) == {staleness[k][i] : i \in 1..Len(staleness[k])}

TierTotal ==
    Len(staleness["critical"]) + Len(staleness["high"]) + Len(staleness["medium"])
    + Len(staleness["low"]) + Len(staleness["up_to_date"])

\* C3: every pair calculate_staleness has gone through whose specification
\* timestamp is readable sits in one tier, and the tier follows the whole-day
\* delta: not strictly later (equal or negative delta) is up to date and nothing
\* else is; more than 30 days is critical (35 days for one); 3 days is medium;
\* less than one day is low.
C3_ClassifiedByDelta ==
    /\ TierTotal = sCursor - sSkipped
    /\ \A k \in Tiers : \A e \in EntriesOf(k) :
         LET delta == e.case_timestamp.t - e.impl_timestamp.t
         IN /\ (delta <= 0) <=> (k = "up_to_date")
            /\ (delta > 0 /\ delta \div 24 > 30) => k = "critical"
            /\ delta = 35 * 24 => k = "critical" /\ e.days_stale = 35
            /\ delta = 3 * 24 => k = "medium" /\ e.days_stale = 3
            /\ (delta > 0 /\ delta < 24) => k = "low"

\* a 35-day pair and a pair with a negative delta have both been classified
C3_Witness ==
    /\ \E e \in EntriesOf("critical") : e.days_stale = 35
    /\ \E e \in EntriesOf("up_to_date") : e.case_timestamp.t < e.impl_timestamp.t

C25_PairedByIndex ==
    sPc \in {"classify", "output", "exited", "crashed"} =>
        LET kept == {i \in 1..Len(sImpl.cases) :
                        i <= Len(sImpl.stamps) /\ sImpl.stamps[i].ok}
        IN /\ Len(sRefs) = Cardinality(kept)
           /\ \A k \in 1..Len(sRefs) :
                 /\ sRefs[k].idx \in kept
                 /\ sRefs[k].case = sImpl.cases[sRefs[k].idx]
                 /\ sRefs[k].impl_timestamp
                        = [none |-> FALSE, aware |-> sImpl.stamps[sRefs[k].idx].z,
                           t |-> sImpl.stamps[sRefs[k].idx].t]
           /\ \A k, l \in 1..Len(sRefs) : k < l => sRefs[k].idx < sRefs[l].idx

\* a file of two references whose first timestamp does not parse: the one
\* pair is the second reference with the second timestamp
C25_Witness ==
    /\ sPc = "classify"
    /\ Len(sImpl.cases) = 2
    /\ Len(sImpl.stamps) = 2
    /\ ~sImpl.stamps[1].ok
    /\ Len(sRefs) = 1
    /\ sRefs[1].idx = 2

\* C27: the tiers follow the documented ranges with critical before high
\* before medium before low: 31 days is critical, 30 days and 30 days 23 hours
\* are high with a day count of 30, 7 days is high, 1 day is medium; and no
\* pair sits in two tiers
C27_TierBoundaries ==
    /\ \A k \in Tiers : \A e \in EntriesOf(k) :
         LET delta == e.case_timestamp.t - e.impl_timestamp.t
         IN /\ delta = 31 * HoursPerDay => k = "critical"
            /\ delta = 30 * HoursPerDay => k = "high"
            /\ delta = 30 * HoursPerDay + 23 => k = "high" /\ e.days_stale = 30
            /\ delta = 7 * HoursPerDay => k = "high"
            /\ delta = HoursPerDay => k = "medium"
    /\ \A k, l \in Tiers : \A e \in EntriesOf(k) : \A f \in EntriesOf(l) :
         e.idx = f.idx => k = l

\* C28: no step of a staleness report, text or JSON, creates or removes a
\* directory under the root it analyses
C28_ReportReadOnly == [][sDirs' = sDirs]_vars

\* C29: calculate_staleness ends normally whatever the pairs are: no pair
\* aborts the run, and once it has returned every pair with a readable
\* specification timestamp sits in a tier
C29_NoPairAborts ==
    /\ sPc # "crashed"
    /\ (sPc \in {"output", "exited"} /\ sRootOk) => TierTotal = Len(sRefs) - sSkipped

(***************************************************************************)
(* Properties of generate-type-registry.py                                 *)
(***************************************************************************)
\* C4: once an invocation has generated the registry, an invocation without
\* flags reports "up to date" and leaves the file as it was, timestamp line
\* included; --check returns 0; and --force writes a file that differs from the
\* one before in its "Last generated" line at most.
C4_RegenerationIdempotent ==
    rLast.gens >= 1 =>
        /\ rLast.mode = "normal" => rLast.outcome = "up to date" /\ rFile = rLast.before
        /\ rLast.mode = "check" => rLast.exit = 0 /\ rFile = rLast.before
        /\ rLast.mode = "force" =>
              extract_content_without_timestamp(rFile)
                = extract_content_without_timestamp(rLast.before)

\* a second generation without flags, run after the clock has moved on, found
\* a registry of at least one type up to date
C4_Witness ==
    /\ rLast.gens >= 1
    /\ rLast.mode = "normal"
    /\ rLast.outcome = "up to date"
    /\ DOMAIN rTypes # {}
    /\ rClock > extract_timestamp(rFile)

\* two templates that yield metadata declare the same type, or the same prefix
Conflicting(listing) ==
    \E i, j \in 1..Len(listing) :
        /\ i # j
        /\ listing[i].type # ""
        /\ listing[j].type # ""
        /\ \/ listing[i].type = listing[j].type
           \/ listing[i].prefix = listing[j].prefix /\ listing[i].prefix # ""

\* C8: with two templates declaring the same type name or the same prefix,
\* every invocation aborts with a non-zero status in scan_templates: no
\* registry is built from part of the templates and the file stays as it was.
C8_ConflictAborts ==
    Conflicting(rTemplates) =>
        /\ rPc # "scanned"
        /\ rLast.mode # "none" =>
              rLast.outcome = "aborted" /\ rLast.exit # 0 /\ rFile = rLast.before

\* C26: the outcome of scanning and the registry content without its 'Last
\* generated' line are the same for every order in which the directory may
\* list the same template files
C26_ListingOrderIrrelevant ==
    rRuns > 0 =>
        \A other \in SeqsUpTo(TemplatePool, MaxTemplates) :
            (/\ IsListing(other)
             /\ Len(other) = Len(rTemplates)
             /\ {other[k] : k \in 1..Len(other)}
                    = {rTemplates[k] : k \in 1..Len(rTemplates)}) =>
                /\ scan_templates(other).ok = scan_templates(rTemplates).ok
                /\ scan_templates(other).ok =>
                      extract_content_without_timestamp(
                          generate_registry(scan_templates(other).types, 0))
                        = extract_content_without_timestamp(
                              generate_registry(scan_templates(rTemplates).types, 0))

====
